---- MODULE Spec2Model ----
(***************************************************************************)
(* Model of the adaptive quiz of src/app.py: the Streamlit session state   *)
(* (question_number, score, current_question, topic, start_time,           *)
(* total_time, responses, asked_questions) and the three button handlers   *)
(* of main(): "Start Quiz", "Submit Answer" and "Restart Quiz", each with  *)
(* the gateway call it makes (generate_initial_question,                   *)
(* generate_next_question) and the st.rerun() that ends it.                *)
(*                                                                         *)
(* An Optional value of the code is a sequence of length 0 (None) or 1.    *)
(* A question text is an opaque identifier: the code only tests it for     *)
(* membership in asked_questions (line 112) and adds it (lines 199, 251),  *)
(* so the gateway's unseen text is taken to be the least identifier not    *)
(* yet in asked_questions.                                                 *)
(***************************************************************************)
EXTENDS Integers, Sequences, FiniteSets, TLC

\* ---------------------------------------------------------------- bounds
\* The clock readings of time.time() range over 0..MaxClock.
MaxClock == 1
\* The user picks one of the first MaxPick options of the radio widget.
MaxPick == 2

\* ------------------------------------------------------ program constants
\* The quiz has 5 questions (lines 204 and 240: question_number <= 5).
QUIZ_LENGTH == 5
\* Line 254 forcing the last question's index instead of the one after it.
FailedAtQuizLength == QUIZ_LENGTH
\* The index a failed adaptive request forces (line 254).
FAILED_QUESTION_NUMBER == 6

VARIABLES
    apiKey,            \* the sidebar's API key is non-empty (line 171)
    question_number,   \* st.session_state.question_number
    score,             \* st.session_state.score
    current_question,  \* st.session_state.current_question (Optional)
    topic,             \* st.session_state.topic (Optional)
    start_time,        \* st.session_state.start_time (Optional)
    total_time,        \* st.session_state.total_time
    responses,         \* st.session_state.responses
    asked_questions,   \* st.session_state.asked_questions
    now,               \* the last reading of time.time()
    errors,            \* the st.error messages of the last script run, in order
    calls,             \* the gateway requests issued by the last script run
    event,             \* the last user action and the gateway's outcome in it
    accepted,          \* texts stored as current_question since the last reset
    submits,           \* "Submit Answer" clicks handled since the last reset
    session_calls      \* gateway requests issued since the last "Start Quiz" click

vars == <<apiKey, question_number, score, current_question, topic, start_time,
          total_time, responses, asked_questions, now, errors, calls, event,
          accepted, submits, session_calls>>

session == <<question_number, score, current_question, topic, start_time,
             total_time, responses, asked_questions>>

\* ------------------------------------------------------------- data model
None == <<>>
Some(x) == <<x>>

\* The four options every generated question carries.
Options == <<"A", "B", "C", "D">>
\* The answer field of a generated question: an option, or a string that is
\* no option (the language model is not held to its own option list).
Answers == {"A", "E"}
Topics == {"Algebra"}

Question(text, answer) ==
    [question |-> text, options |-> Options, answer |-> answer]

\* The least text identifier that is not in the seen-set.
FreshText(asked) == Cardinality(asked) + 1

\* What client.qna_engine.generate_questions does: it raises, or returns a
\* result whose questions list is empty or holds one question, whose text
\* is a seen one or the fresh one.
GatewayOutcomes(asked) ==
    {[raised |-> TRUE, questions |-> <<>>], [raised |-> FALSE, questions |-> <<>>]}
    \cup {[raised |-> FALSE, questions |-> <<Question(t, a)>>] :
              t \in asked \cup {FreshText(asked)}, a \in Answers}

\* The gateway's outcome as the caller meets it: an exception, an empty
\* result, a question whose text is in the seen-set, or a new question.
Raised(out) == out.raised
EmptyResult(out) == ~out.raised /\ out.questions = <<>>
Duplicate(out, asked) ==
    ~out.raised /\ out.questions # <<>> /\ out.questions[1].question \in asked
NewQuestion(out, asked) ==
    ~out.raised /\ out.questions # <<>> /\ out.questions[1].question \notin asked
OutcomeKind(out, asked) ==
    IF Raised(out) THEN "raise"
    ELSE IF EmptyResult(out) THEN "empty"
    ELSE IF Duplicate(out, asked) THEN "duplicate"
    ELSE "new"

\* ------------------------------------------------------------ the gateway
ERR_INITIAL == "Failed to generate initial question"
ERR_NEXT == "Failed to generate next question"
ERR_NEW == "Failed to generate a new question. Please try again."
ERR_INCORRECT == "Incorrect"

\* generate_initial_question, lines 65-76: value is the Optional question
\* returned, errors the st.error calls made, requests the gateway requests.
generate_initial_question(t, out) ==
    LET request == [template |-> "INITIAL", topic |-> t,
                    difficulty_level |-> "Medium"]
    IN  IF out.raised
        THEN [value |-> None, errors |-> <<ERR_INITIAL>>, requests |-> <<request>>]
        ELSE IF out.questions # <<>>
        THEN [value |-> Some(out.questions[1]), errors |-> <<>>,
              requests |-> <<request>>]
        ELSE [value |-> None, errors |-> <<>>, requests |-> <<request>>]

\* Line 104 with the two difficulties exchanged.
Difficulty_Inverted(response_correct) ==
    IF response_correct = "True" THEN "Easier" ELSE "Harder"

\* The difficulty of an adaptive request, line 104.
Difficulty(response_correct) ==
    IF response_correct = "True" THEN "Harder" ELSE "Easier"

\* Line 112 without the membership test: any returned question is taken.
Unseen_Unchecked(q, asked) == TRUE

\* The duplicate test of line 112.
Unseen(q, asked) == q.question \notin asked

\* Lines 99-117 asking the gateway a second time when the result is empty or
\* a seen question, and giving up after that.
generate_next_question_Retry(previous_question, user_response, response_correct, t, out, asked) ==
    LET request == [template |-> "ADAPTIVE", topic |-> t,
                    difficulty_level |-> Difficulty(response_correct),
                    previous_question |-> previous_question,
                    user_response |-> user_response,
                    response_correct |-> response_correct]
    IN  IF out.raised
        THEN [value |-> None, errors |-> <<ERR_NEXT>>, requests |-> <<request>>]
        ELSE IF out.questions # <<>> /\ Unseen(out.questions[1], asked)
        THEN [value |-> Some(out.questions[1]), errors |-> <<>>,
              requests |-> <<request>>]
        ELSE [value |-> None, errors |-> <<>>, requests |-> <<request, request>>]

\* generate_next_question, lines 99-117.
generate_next_question(previous_question, user_response, response_correct, t, out, asked) ==
    LET request == [template |-> "ADAPTIVE", topic |-> t,
                    difficulty_level |-> Difficulty(response_correct),
                    previous_question |-> previous_question,
                    user_response |-> user_response,
                    response_correct |-> response_correct]
    IN  IF out.raised
        THEN [value |-> None, errors |-> <<ERR_NEXT>>, requests |-> <<request>>]
        ELSE IF out.questions # <<>> /\ Unseen(out.questions[1], asked)
        THEN [value |-> Some(out.questions[1]), errors |-> <<>>,
              requests |-> <<request>>]
        ELSE [value |-> None, errors |-> <<>>, requests |-> <<request>>]

\* ------------------------------------------------------------------ Init
\* initialize_session_state, lines 119-129, on the first run of a session.
Defaults ==
    /\ question_number = 0
    /\ score = 0
    /\ current_question = None
    /\ topic = None
    /\ start_time = None
    /\ total_time = 0
    /\ responses = <<>>
    /\ asked_questions = {}

Init ==
    /\ Defaults
    /\ apiKey = FALSE
    /\ now = 0
    /\ errors = <<>>
    /\ calls = <<>>
    /\ event = [action |-> "init", gateway |-> None, outcome |-> "none"]
    /\ accepted = <<>>
    /\ submits = 0
    /\ session_calls = 0

\* --------------------------------------------------------------- actions
\* The user types or clears the API key in the sidebar (line 171): the
\* script reruns and renders, no session field changes.
EnterApiKey ==
    /\ apiKey' = ~apiKey
    /\ errors' = <<>>
    /\ calls' = <<>>
    /\ event' = [action |-> "apikey", gateway |-> None, outcome |-> "none"]
    /\ UNCHANGED <<session, now, accepted, submits, session_calls>>

\* Lines 176-178 left out: the buttons are rendered without a key.
KeySupplied_Ignored == TRUE

\* Lines 176-178: without an API key the script stops before any button.
KeySupplied == apiKey

\* Line 183: the start button is rendered.
StartEnabled == KeySupplied /\ question_number = 0

\* Lines 195-202 with the increment of line 200 and the start time outside
\* the "if current_question" branch: a failed start advances the index.
Start_AlwaysAdvance(t, out, clock) ==
    /\ StartEnabled
    /\ LET r == generate_initial_question(t, out)
       IN  /\ topic' = Some(t)
           /\ current_question' = r.value
           /\ errors' = r.errors
           /\ calls' = r.requests
           /\ session_calls' = Len(r.requests)
           /\ event' = [action |-> "start", gateway |-> Some(out),
                       outcome |-> OutcomeKind(out, asked_questions)]
           /\ question_number' = question_number + 1
           /\ start_time' = Some(clock)
           /\ now' = clock
           /\ IF r.value # None
              THEN /\ asked_questions' = asked_questions \cup {r.value[1].question}
                   /\ accepted' = Append(accepted, r.value[1].question)
              ELSE UNCHANGED <<asked_questions, accepted>>
    /\ UNCHANGED <<apiKey, score, total_time, responses, submits>>

\* Lines 195-202 with the start time recorded before the request instead
\* of inside the "if current_question" branch.
Start_TimerFirst(t, out, clock) ==
    /\ StartEnabled
    /\ LET r == generate_initial_question(t, out)
       IN  /\ topic' = Some(t)
           /\ current_question' = r.value
           /\ errors' = r.errors
           /\ calls' = r.requests
           /\ session_calls' = Len(r.requests)
           /\ event' = [action |-> "start", gateway |-> Some(out),
                       outcome |-> OutcomeKind(out, asked_questions)]
           /\ start_time' = Some(clock)
           /\ now' = clock
           /\ IF r.value # None
              THEN /\ asked_questions' = asked_questions \cup {r.value[1].question}
                   /\ question_number' = question_number + 1
                   /\ accepted' = Append(accepted, r.value[1].question)
              ELSE UNCHANGED <<asked_questions, question_number, accepted>>
    /\ UNCHANGED <<apiKey, score, total_time, responses, submits>>

\* "Start Quiz", lines 195-202.
Start(t, out, clock) ==
    /\ StartEnabled
    /\ LET r == generate_initial_question(t, out)
       IN  /\ topic' = Some(t)
           /\ current_question' = r.value
           /\ errors' = r.errors
           /\ calls' = r.requests
           /\ session_calls' = Len(r.requests)
           /\ event' = [action |-> "start", gateway |-> Some(out),
                       outcome |-> OutcomeKind(out, asked_questions)]
           /\ IF r.value # None
              THEN /\ asked_questions' = asked_questions \cup {r.value[1].question}
                   /\ question_number' = question_number + 1
                   /\ start_time' = Some(clock)
                   /\ now' = clock
                   /\ accepted' = Append(accepted, r.value[1].question)
              ELSE UNCHANGED <<asked_questions, question_number, start_time, now,
                               accepted>>
    /\ UNCHANGED <<apiKey, score, total_time, responses, submits>>

StartQuiz ==
    \E t \in Topics, out \in GatewayOutcomes(asked_questions), clock \in now..MaxClock :
        Start(t, out, clock)

\* Line 204 as a plain "else": the submit button is rendered in Completed too.
SubmitEnabled_NoUpperBound ==
    /\ KeySupplied
    /\ question_number # 0
    /\ current_question # None

\* Line 204-205: the question and its submit button are rendered.
SubmitEnabled ==
    /\ KeySupplied
    /\ question_number # 0
    /\ question_number <= QUIZ_LENGTH
    /\ current_question # None

\* The value of the radio widget of lines 211-215: one of the options of the
\* current question.
UserAnswers(q) ==
    {q.options[i] : i \in {j \in 1..Len(q.options) : j <= MaxPick}}

\* Line 219.
IsCorrect(user_answer, correct_answer) == user_answer = correct_answer

\* Lines 221-227 crediting a right answer twice.
ScoreAfter_Double(s, is_correct) == IF is_correct THEN s + 2 ELSE s

\* Lines 221-227 with a penalty in the else branch.
ScoreAfter_Penalised(s, is_correct) == IF is_correct THEN s + 1 ELSE s - 1

\* Lines 221-227: the score, the flag handed to the gateway, the message.
ScoreAfter(s, is_correct) == IF is_correct THEN s + 1 ELSE s
ResponseCorrect(is_correct) == IF is_correct THEN "True" ELSE "False"
AnswerErrors(is_correct) == IF is_correct THEN <<>> ELSE <<ERR_INCORRECT>>

\* Lines 229-233 moved into the "if is_correct" branch: a wrong answer is
\* not recorded.
AppendResponse_OnlyCorrect(log, q, user_answer) ==
    IF user_answer = q.answer
    THEN Append(log, [question |-> q.question, user_answer |-> user_answer,
                      correct_answer |-> q.answer])
    ELSE log

\* Lines 229-233.
AppendResponse(log, q, user_answer) ==
    Append(log, [question |-> q.question, user_answer |-> user_answer,
                 correct_answer |-> q.answer])

\* Line 238 stepping by two.
NextQuestionNumber_Skip(n) == n + 2

\* Line 238.
NextQuestionNumber(n) == n + 1

\* Line 256 with the operands exchanged.
Elapsed_Reversed(clock, started) == started - clock

\* Line 256.
Elapsed(clock, started) == clock - started

\* Lines 240-257 with the elapsed time of line 256 also taken in the failure
\* branch of lines 252-254.
SubmitNext_FinalizesOnFailure(user_answer, out) ==
    /\ SubmitEnabled
    /\ NextQuestionNumber(question_number) <= QUIZ_LENGTH
    /\ LET q == current_question[1]
           is_correct == IsCorrect(user_answer, q.answer)
           r == generate_next_question(q.question, user_answer,
                                       ResponseCorrect(is_correct), topic[1], out,
                                       asked_questions)
       IN  /\ score' = ScoreAfter(score, is_correct)
           /\ responses' = AppendResponse(responses, q, user_answer)
           /\ calls' = r.requests
           /\ session_calls' = session_calls + Len(r.requests)
           /\ event' = [action |-> "submit", gateway |-> Some(out),
                       outcome |-> OutcomeKind(out, asked_questions)]
           /\ IF r.value # None
              THEN /\ current_question' = r.value
                   /\ asked_questions' = asked_questions \cup {r.value[1].question}
                   /\ question_number' = NextQuestionNumber(question_number)
                   /\ errors' = AnswerErrors(is_correct) \o r.errors
                   /\ accepted' = Append(accepted, r.value[1].question)
                   /\ UNCHANGED <<total_time, now>>
              ELSE /\ question_number' = FAILED_QUESTION_NUMBER
                   /\ errors' = AnswerErrors(is_correct) \o r.errors \o <<ERR_NEW>>
                   /\ \E clock \in now..MaxClock :
                         /\ total_time' = Elapsed(clock, start_time[1])
                         /\ now' = clock
                   /\ UNCHANGED <<current_question, asked_questions, accepted>>
    /\ submits' = submits + 1
    /\ UNCHANGED <<apiKey, topic, start_time>>

\* "Submit Answer", lines 217-257, when the incremented index is <= 5: the
\* next question is requested (lines 241-254).
SubmitNext(user_answer, out) ==
    /\ SubmitEnabled
    /\ NextQuestionNumber(question_number) <= QUIZ_LENGTH
    /\ LET q == current_question[1]
           is_correct == IsCorrect(user_answer, q.answer)
           r == generate_next_question(q.question, user_answer,
                                       ResponseCorrect(is_correct), topic[1], out,
                                       asked_questions)
       IN  /\ score' = ScoreAfter(score, is_correct)
           /\ responses' = AppendResponse(responses, q, user_answer)
           /\ calls' = r.requests
           /\ session_calls' = session_calls + Len(r.requests)
           /\ event' = [action |-> "submit", gateway |-> Some(out),
                       outcome |-> OutcomeKind(out, asked_questions)]
           /\ IF r.value # None
              THEN /\ current_question' = r.value
                   /\ asked_questions' = asked_questions \cup {r.value[1].question}
                   /\ question_number' = NextQuestionNumber(question_number)
                   /\ errors' = AnswerErrors(is_correct) \o r.errors
                   /\ accepted' = Append(accepted, r.value[1].question)
              ELSE /\ question_number' = FAILED_QUESTION_NUMBER
                   /\ errors' = AnswerErrors(is_correct) \o r.errors \o <<ERR_NEW>>
                   /\ UNCHANGED <<current_question, asked_questions, accepted>>
    /\ submits' = submits + 1
    /\ UNCHANGED <<apiKey, topic, start_time, total_time, now>>

\* "Submit Answer" when the incremented index is > 5: the elapsed time is
\* finalized (lines 255-256) and no question is requested.
SubmitLast(user_answer, clock) ==
    /\ SubmitEnabled
    /\ NextQuestionNumber(question_number) > QUIZ_LENGTH
    /\ LET q == current_question[1]
           is_correct == IsCorrect(user_answer, q.answer)
       IN  /\ score' = ScoreAfter(score, is_correct)
           /\ responses' = AppendResponse(responses, q, user_answer)
           /\ errors' = AnswerErrors(is_correct)
    /\ question_number' = NextQuestionNumber(question_number)
    /\ total_time' = Elapsed(clock, start_time[1])
    /\ now' = clock
    /\ calls' = <<>>
    /\ event' = [action |-> "submit", gateway |-> None, outcome |-> "none"]
    /\ submits' = submits + 1
    /\ UNCHANGED <<apiKey, current_question, topic, start_time, asked_questions,
                   accepted, session_calls>>

SubmitAnswer ==
    /\ SubmitEnabled
    /\ \E user_answer \in UserAnswers(current_question[1]) :
          \/ \E out \in GatewayOutcomes(asked_questions) : SubmitNext(user_answer, out)
          \/ \E clock \in now..MaxClock : SubmitLast(user_answer, clock)

\* Line 265: the summary and the restart button are rendered.
RestartEnabled == KeySupplied /\ question_number > QUIZ_LENGTH

\* Lines 267-270 as a field-by-field reset that leaves total_time out.
RestartQuiz_KeepsTotalTime ==
    /\ RestartEnabled
    /\ question_number' = 0
    /\ score' = 0
    /\ current_question' = None
    /\ topic' = None
    /\ start_time' = None
    /\ responses' = <<>>
    /\ asked_questions' = {}
    /\ errors' = <<>>
    /\ calls' = <<>>
    /\ event' = [action |-> "reset", gateway |-> None, outcome |-> "none"]
    /\ accepted' = <<>>
    /\ submits' = 0
    /\ session_calls' = 0
    /\ UNCHANGED <<apiKey, now, total_time>>

\* "Restart Quiz", lines 267-270: every key of the session state is deleted
\* and the rerun's initialize_session_state (lines 119-129) sets the defaults.
RestartQuiz ==
    /\ RestartEnabled
    /\ question_number' = 0
    /\ score' = 0
    /\ current_question' = None
    /\ topic' = None
    /\ start_time' = None
    /\ total_time' = 0
    /\ responses' = <<>>
    /\ asked_questions' = {}
    /\ errors' = <<>>
    /\ calls' = <<>>
    /\ event' = [action |-> "reset", gateway |-> None, outcome |-> "none"]
    /\ accepted' = <<>>
    /\ submits' = 0
    /\ session_calls' = 0
    /\ UNCHANGED <<apiKey, now>>

Next == StartQuiz \/ SubmitAnswer \/ RestartQuiz \/ EnterApiKey

Spec == Init /\ [][Next]_vars

\* The quiz with a user who keeps answering: a submit that is offered again
\* and again is eventually clicked.
LiveSpec == Init /\ [][Next]_vars /\ SF_vars(SubmitAnswer)

\* ------------------------------------------------------------ properties
NotStarted == question_number = 0
InProgress == question_number >= 1 /\ question_number <= QUIZ_LENGTH
Completed == question_number > QUIZ_LENGTH

Range(seq) == {seq[i] : i \in 1..Len(seq)}
Injective(seq) == \A i, j \in 1..Len(seq) : seq[i] = seq[j] => i = j
GatewayFailed == event.outcome \in {"raise", "empty"}
GatewayErrorShown == Range(errors) \cap {ERR_INITIAL, ERR_NEXT, ERR_NEW} # {}

\* C1: after a successful start and 5 submits in which every gateway request
\* returned an unseen question (5 questions accepted), the index is 6, the
\* state is Completed and the response log holds exactly 5 records, whatever
\* the answers were.
C1_FiveSubmitsComplete ==
    (submits = QUIZ_LENGTH /\ Len(accepted) = QUIZ_LENGTH)
        => /\ question_number = QUIZ_LENGTH + 1
           /\ Completed
           /\ Len(responses) = QUIZ_LENGTH

\* A full session of 5 submits with a wrong and a right answer in the log.
C1_Witness ==
    /\ submits = QUIZ_LENGTH
    /\ Len(accepted) = QUIZ_LENGTH
    /\ event.action = "submit"
    /\ Completed
    /\ score \notin {0, QUIZ_LENGTH}

\* C2 as stated: every submit, whatever the gateway does, raises the index
\* by exactly 1.
C2_Original ==
    [][SubmitAnswer => question_number' = question_number + 1]_vars

\* C2 amended: a submit raises the index by exactly 1 when the gateway
\* returns a new question, and when no request is made (index 5 before);
\* when the request raises, returns nothing or returns a seen text the
\* index after the submit is 6, whatever it was before.
C2_IndexStep ==
    [][SubmitEnabled =>
         /\ \A ua \in UserAnswers(current_question[1]) :
              \A out \in GatewayOutcomes(asked_questions) :
                 SubmitNext(ua, out) =>
                    IF NewQuestion(out, asked_questions)
                    THEN question_number' = question_number + 1
                    ELSE question_number' = QUIZ_LENGTH + 1
         /\ \A ua \in UserAnswers(current_question[1]) :
              \A clock \in now..MaxClock :
                 SubmitLast(ua, clock) => question_number' = question_number + 1
      ]_vars

\* The first submit of a session met a failed request: the index went from
\* 1 to 6.
C2_Witness ==
    /\ event.action = "submit"
    /\ event.outcome \in {"raise", "empty", "duplicate"}
    /\ submits = 1
    /\ question_number = QUIZ_LENGTH + 1

C4_ScoreBounds ==
    /\ 0 <= score
    /\ score <= Len(responses)
    /\ score <= submits
    /\ score <= question_number
    /\ score <= QUIZ_LENGTH

\* Five right answers: the score meets its bound.
C4_Witness ==
    /\ score = QUIZ_LENGTH
    /\ Len(responses) = QUIZ_LENGTH
    /\ event.action = "submit"

\* C5: the score never decreases across a start or a submit; a submit
\* leaves it unchanged or raises it by exactly 1, and raises it exactly when
\* the submitted answer equals the current question's correct answer; only
\* a reset lowers it, to 0.
C5_ScoreMonotone ==
    [][/\ (StartQuiz \/ SubmitAnswer) => score' >= score
       /\ SubmitEnabled =>
             \A ua \in UserAnswers(current_question[1]) :
                ((\E out \in GatewayOutcomes(asked_questions) : SubmitNext(ua, out))
                 \/ (\E clock \in now..MaxClock : SubmitLast(ua, clock)))
                => /\ score' \in {score, score + 1}
                   /\ (score' = score + 1) <=> (ua = current_question[1].answer)
       /\ score' < score => (RestartQuiz /\ score' = 0)
      ]_vars

\* Two submits, one of them right and one wrong.
C5_Witness ==
    /\ event.action = "submit"
    /\ submits = 2
    /\ score = 1

\* C6: within a session no question text is accepted twice: the texts
\* stored as current question are pairwise distinct, the seen-set has as
\* many members as questions were accepted, and the question texts of the
\* response log are pairwise distinct.
C6_NoRepeatedQuestion ==
    /\ Injective(accepted)
    /\ Cardinality(asked_questions) = Len(accepted)
    /\ Range(accepted) = asked_questions
    /\ Injective([i \in 1..Len(responses) |-> responses[i].question])

\* Five questions were accepted and answered in one session.
C6_Witness ==
    /\ Len(accepted) = QUIZ_LENGTH
    /\ Len(responses) = QUIZ_LENGTH
    /\ Cardinality(asked_questions) = QUIZ_LENGTH

\* C7 as stated: reset is available in every reachable state, and after it
\* all session fields hold their defaults.
C7_Original ==
    /\ KeySupplied => ENABLED RestartQuiz
    /\ event.action = "reset" => Defaults

\* C7 amended: reset is available exactly in Completed (index > 5, an API
\* key being supplied), and after it all session fields hold their initial
\* defaults: index 0, score 0, no current question, no topic, empty
\* response log, empty seen-set, no start time, total_time 0.
C7_ResetFromCompleted ==
    /\ (ENABLED RestartQuiz) <=> (KeySupplied /\ Completed)
    /\ event.action = "reset" => Defaults

\* A reset was taken after the clock had advanced.
C7_Witness ==
    /\ event.action = "reset"
    /\ now > 0
    /\ NotStarted

C9_FailedStartStays ==
    (event.action = "start" /\ GatewayFailed)
        => /\ question_number = 0
           /\ score = 0
           /\ asked_questions = {}
           /\ responses = <<>>
           /\ current_question = None
           /\ start_time = None

\* A start whose request raised.
C9_Witness ==
    /\ event.action = "start"
    /\ event.outcome = "raise"
    /\ Len(calls) = 1

\* C10: every gateway failure, in start as in submit, raised or empty,
\* surfaces an error message and is not retried.
C10_FailureSurfaced ==
    GatewayFailed => (GatewayErrorShown /\ Len(calls) = 1)

\* C12: the index is always in 0..6; once the session is Completed, start
\* and submit are disabled, and every step taken from Completed either
\* leaves the index, score, response log and seen-set as they are or is a
\* reset that leads to NotStarted with the defaults.
C12_CompletedIsTerminal ==
    [][/\ question_number \in 0..(QUIZ_LENGTH + 1)
       /\ question_number' \in 0..(QUIZ_LENGTH + 1)
       /\ Completed =>
             /\ ~ENABLED StartQuiz
             /\ ~ENABLED SubmitAnswer
             /\ ~StartQuiz
             /\ ~SubmitAnswer
             /\ \/ UNCHANGED <<question_number, score, responses, asked_questions>>
                \/ RestartQuiz /\ Defaults' /\ NotStarted'
      ]_vars

\* A step was taken in Completed that was no reset: the key was cleared and
\* typed again after a full session.
C12_Witness ==
    /\ Completed
    /\ submits = QUIZ_LENGTH
    /\ event.action = "apikey"
    /\ KeySupplied

\* C13: the submit that raises the index above 5 sets total_time to the
\* clock value read at that submit minus the start time the successful
\* start recorded, and total_time is greater than 0 whenever that reading is
\* later than the start time.
C13_TotalTimeFinalized ==
    [][SubmitEnabled =>
         \A ua \in UserAnswers(current_question[1]) :
            \A clock \in now..MaxClock :
               SubmitLast(ua, clock)
               => /\ question_number' > QUIZ_LENGTH
                  /\ submits' = QUIZ_LENGTH
                  /\ start_time # None
                  /\ start_time' = start_time
                  /\ total_time' = clock - start_time[1]
                  /\ clock > start_time[1] => total_time' > 0
      ]_vars

\* The 5th submit was handled at a later clock reading than the start.
C13_Witness ==
    /\ event.action = "submit"
    /\ submits = QUIZ_LENGTH
    /\ now > start_time[1]
    /\ total_time > 0

\* C14: each user action issues at most one gateway request: a start
\* exactly one, a submit exactly one when the incremented index is <= 5 and
\* none when it is > 5, a reset none; so from the start click to Completed
\* a session issues at most 5 requests.
C14_OneRequestPerAction ==
    [][/\ Len(calls') <= 1
       /\ StartQuiz => Len(calls') = 1
       /\ SubmitAnswer =>
             Len(calls') = IF question_number + 1 <= QUIZ_LENGTH THEN 1 ELSE 0
       /\ RestartQuiz => Len(calls') = 0
       /\ session_calls' <= QUIZ_LENGTH
      ]_vars

\* A full session: the start and four submits each made a request, the 5th
\* submit made none.
C14_Witness ==
    /\ event.action = "submit"
    /\ submits = QUIZ_LENGTH
    /\ session_calls = QUIZ_LENGTH
    /\ calls = <<>>

\* C15: every submit that requests a next question sends one adaptive
\* request carrying the text of the question just answered, the submitted
\* answer and the correctness flag; its difficulty is Harder exactly when
\* the submitted answer equals the correct answer of the question just
\* answered, and Easier otherwise.
C15_AdaptiveRequest ==
    [][SubmitEnabled =>
         \A ua \in UserAnswers(current_question[1]) :
            \A out \in GatewayOutcomes(asked_questions) :
               SubmitNext(ua, out)
               => LET right == ua = current_question[1].answer
                  IN  /\ Len(calls') = 1
                      /\ calls'[1].template = "ADAPTIVE"
                      /\ calls'[1].topic = topic[1]
                      /\ calls'[1].previous_question = current_question[1].question
                      /\ calls'[1].user_response = ua
                      /\ calls'[1].response_correct = IF right THEN "True" ELSE "False"
                      /\ calls'[1].difficulty_level = IF right THEN "Harder" ELSE "Easier"
      ]_vars

\* After a right and a wrong answer, the last request asked for an easier
\* question.
C15_Witness ==
    /\ event.action = "submit"
    /\ submits = 2
    /\ score = 1
    /\ Len(calls) = 1
    /\ calls[1].difficulty_level = "Easier"
    /\ calls[1].response_correct = "False"

\* C16 as stated: from every reachable InProgress state submit is enabled,
\* and under fairness of submit the session reaches Completed after at most
\* 5 submits, for every combination of gateway outcomes.
C16_Original ==
    /\ [](InProgress => ENABLED SubmitAnswer)
    /\ [](submits <= QUIZ_LENGTH)
    /\ InProgress ~> Completed

\* C16 amended: from every reachable InProgress state in which an API key
\* is supplied submit is enabled (without a key the script stops before the
\* question is rendered, until a key is supplied again); a session holds at
\* most 5 submits; and under fairness of submit, if the key is supplied
\* again and again, the session reaches Completed for every combination of
\* gateway outcomes.
C16_NeverStuck ==
    /\ []((InProgress /\ KeySupplied) => ENABLED SubmitAnswer)
    /\ [](submits <= QUIZ_LENGTH)
    /\ ([]<>KeySupplied) => (InProgress ~> Completed)

\* A quiz in progress whose key was cleared and supplied again: submit is
\* offered.
C16_Witness ==
    /\ InProgress
    /\ KeySupplied
    /\ event.action = "apikey"
    /\ submits = QUIZ_LENGTH - 1

\* C17: while no API key is supplied start is blocked, in whatever state
\* the session is: start is not enabled, and no step issues a gateway
\* request or changes a session field.
C17_NoKeyBlocksStart ==
    [][~apiKey =>
         /\ ~ENABLED StartQuiz
         /\ ~StartQuiz
         /\ calls' = <<>>
         /\ session_calls' = session_calls
         /\ session' = session
      ]_vars

\* The key was cleared before any quiz was started: the index is 0 and the
\* start button is not rendered.
C17_Witness ==
    /\ ~apiKey
    /\ NotStarted
    /\ event.action = "apikey"

\* The number of records of the response log whose answer is the correct one.
RightAnswers(log) ==
    Cardinality({i \in 1..Len(log) : log[i].user_answer = log[i].correct_answer})

\* C18: in every InProgress state a current question is stored and its text
\* is in the seen-set; the current question is absent only in NotStarted.
C18_CurrentQuestionStored ==
    /\ InProgress => /\ current_question # None
                     /\ current_question[1].question \in asked_questions
    /\ current_question = None => NotStarted

\* A quiz in progress after a submit whose request gave a new question.
C18_Witness ==
    /\ InProgress
    /\ event.action = "submit"
    /\ event.outcome = "new"
    /\ current_question # None

\* C19: the response log has as many records as submits were handled since
\* the last reset, a submit whose request failed included; in InProgress
\* that is index - 1; and the score counts every recorded right answer, so
\* after a failure at the k-th submit the log has k records and the score
\* includes the k-th answer.
C19_LogCountsSubmits ==
    /\ Len(responses) = submits
    /\ InProgress => Len(responses) = question_number - 1
    /\ score = RightAnswers(responses)
    /\ (event.action = "submit" /\ event.outcome \in {"raise", "empty", "duplicate"})
          => /\ Completed
             /\ Len(responses) = submits
             /\ submits < QUIZ_LENGTH

\* The request of the 2nd submit failed, and both answers, the 2nd
\* included, were right and are in the score.
C19_Witness ==
    /\ event.action = "submit"
    /\ GatewayFailed
    /\ submits = 2
    /\ Len(responses) = 2
    /\ score = 2

\* C20: when Completed is reached by early termination (a failed, empty or
\* duplicate request during a submit, so fewer than 5 submits), total_time
\* keeps its default 0; total_time is non-zero only in Completed after the
\* 5th submit.
C20_EarlyEndKeepsZero ==
    /\ (Completed /\ submits < QUIZ_LENGTH) => total_time = 0
    /\ total_time # 0 => (Completed /\ submits = QUIZ_LENGTH)

\* A quiz ended by a duplicate question at the 4th submit: the summary shows
\* a total time of 0.
C20_Witness ==
    /\ Completed
    /\ event.action = "submit"
    /\ event.outcome = "duplicate"
    /\ submits = QUIZ_LENGTH - 1
    /\ total_time = 0

====
